---------------------------- MODULE Spec2Model ----------------------------
(***************************************************************************)
(* Chirpy: the profanity filter (sanitize) and the HTTP handlers of        *)
(* main.go over the users/chirps store.                                    *)
(*                                                                         *)
(* A text is a sequence of characters; a character is a one-element       *)
(* string, or "U+xxxx" for a character outside ASCII.  The length Go's     *)
(* len() reports is the number of UTF-8 bytes (ByteLen), not of            *)
(* characters.                                                             *)
(***************************************************************************)
EXTENDS Integers, Sequences, FiniteSets, TLC

VARIABLES
    text,            \* sanitize: the argument s
    clean,           \* sanitize(text)
    again,           \* sanitize(clean)
    stage,           \* "new", "once", "twice": how often sanitize ran
    platform,        \* apiConfig.platform
    fileserverHits,  \* apiConfig.fileserverHits
    users,           \* rows of table users
    chirps,          \* rows of table chirps
    nextId,          \* the next fresh identifier the store hands out
    last             \* the request served last and its response

vars == <<text, clean, again, stage, platform, fileserverHits, users, chirps,
          nextId, last>>

sanVars == <<text, clean, again, stage>>
srvVars == <<platform, fileserverHits, users, chirps, nextId, last>>

-----------------------------------------------------------------------------
(* Bounds *)

\* how many pieces an argument of sanitize is put together from
MaxPieces == 3

\* how many rows the store hands out identifiers for
MaxRows == 2

\* how far the hit counter is driven
MaxHits == 1

-----------------------------------------------------------------------------
(* Characters and strings *)

\* UTF-8 width of a character
Width(c) == IF c = "U+00E9" THEN 2 ELSE IF c = "U+212A" THEN 3 ELSE 1

\* len(s) of Go: the number of bytes, one per character and Width(c) - 1
\* more for each wider one
ByteLen(s) ==
    Len(s) + Cardinality({i \in 1..Len(s) : Width(s[i]) = 2})
           + 2 * Cardinality({i \in 1..Len(s) : Width(s[i]) = 3})

UpperRunes == <<"A", "B", "E", "F", "H", "K", "L", "N", "O", "R", "S", "T",
                "U", "X", "U+212A">>
LowerRunes == <<"a", "b", "e", "f", "h", "k", "l", "n", "o", "r", "s", "t",
                "u", "x", "k">>

\* unicode.ToLower on one character (U+212A KELVIN SIGN lowers to k)
ToLowerRune(c) ==
    IF \E i \in 1..Len(UpperRunes) : UpperRunes[i] = c
    THEN LowerRunes[CHOOSE i \in 1..Len(UpperRunes) : UpperRunes[i] = c]
    ELSE c

\* strings.ToLower
ToLower(s) == [i \in 1..Len(s) |-> ToLowerRune(s[i])]

\* the cutset of strings.Trim(v, ".,!?")
Cutset == {".", ",", "!", "?"}

RECURSIVE TrimLeft(_)
TrimLeft(v) ==
    IF v # <<>> /\ Head(v) \in Cutset THEN TrimLeft(Tail(v)) ELSE v

RECURSIVE TrimRight(_)
TrimRight(v) ==
    IF v # <<>> /\ v[Len(v)] \in Cutset
    THEN TrimRight(SubSeq(v, 1, Len(v) - 1))
    ELSE v

\* strings.Trim(v, ".,!?"): leading and trailing cutset characters go
Trim(v) == TrimRight(TrimLeft(v))

\* strings.Index(s, " "), 1-based, 0 when there is no space
IndexSpace(s) ==
    IF \E i \in 1..Len(s) : s[i] = " "
    THEN CHOOSE i \in 1..Len(s) : s[i] = " " /\ \A j \in 1..(i - 1) : s[j] # " "
    ELSE 0

RECURSIVE SplitFields(_)
\* a split that drops empty tokens, as strings.Fields does
SplitFields(s) ==
    IF s = <<>> THEN <<>>
    ELSE IF IndexSpace(s) = 0 THEN <<s>>
    ELSE IF IndexSpace(s) = 1 THEN SplitFields(Tail(s))
    ELSE <<SubSeq(s, 1, IndexSpace(s) - 1)>>
             \o SplitFields(SubSeq(s, IndexSpace(s) + 1, Len(s)))

RECURSIVE Split(_)
\* strings.Split(s, " "): one token more than there are spaces
Split(s) ==
    IF IndexSpace(s) = 0 THEN <<s>>
    ELSE <<SubSeq(s, 1, IndexSpace(s) - 1)>>
             \o Split(SubSeq(s, IndexSpace(s) + 1, Len(s)))

RECURSIVE JoinNoSep(_)
\* a join that forgets the separator
JoinNoSep(elems) ==
    IF elems = <<>> THEN <<>> ELSE Head(elems) \o JoinNoSep(Tail(elems))

RECURSIVE Join(_)
\* strings.Join(elems, " ")
Join(elems) ==
    IF elems = <<>> THEN <<>>
    ELSE IF Len(elems) = 1 THEN Head(elems)
    ELSE Head(elems) \o <<" ">> \o Join(Tail(elems))

-----------------------------------------------------------------------------
(* sanitize *)

kerfuffle == <<"k", "e", "r", "f", "u", "f", "f", "l", "e">>
sharbert  == <<"s", "h", "a", "r", "b", "e", "r", "t">>
fornax    == <<"f", "o", "r", "n", "a", "x">>

badWords == <<kerfuffle, sharbert, fornax>>

\* the literal "****"
Mask == <<"*", "*", "*", "*">>

\* slices.Contains
Contains(list, e) == \E i \in 1..Len(list) : list[i] = e

\* the comparison key of a token, without the lower-casing
cleanCaseSensitive(v) == Trim(v)

\* clean := strings.ToLower(strings.Trim(v, ".,!?"))
cleanOf(v) == ToLower(Trim(v))

\* the loop body with the else lost: the mask and then the token itself
censorNoElse(v) ==
    IF Contains(badWords, cleanOf(v)) THEN <<Mask, v>> ELSE <<v>>

\* the loop body: what one token appends to rtSlice
censor(v) ==
    IF Contains(badWords, cleanOf(v)) THEN <<Mask>> ELSE <<v>>

RECURSIVE censorAll(_)
\* the loop over strSlice
censorAll(strSlice) ==
    IF strSlice = <<>> THEN <<>>
    ELSE censor(Head(strSlice)) \o censorAll(Tail(strSlice))

sanitize(s) == Join(censorAll(Split(s)))

-----------------------------------------------------------------------------
(* The arguments sanitize is run on *)

Pieces ==
    { <<" ">>, <<"!">>, <<".">>, <<"?", ",">>, <<"s">>, <<"U+00E9">>,
      <<"f", "o", "r">>, <<"n", "a", "x">>,
      <<"F", "o", "r", "n", "a", "X">>,
      kerfuffle,
      <<"U+212A", "e", "r", "f", "u", "f", "f", "l", "e">>,
      <<"S", "H", "A", "R", "B", "E", "R", "T">>,
      Mask }

RECURSIVE Flatten(_)
Flatten(ps) == IF ps = <<>> THEN <<>> ELSE Head(ps) \o Flatten(Tail(ps))

Texts == UNION { { Flatten(ps) : ps \in [1..n -> Pieces] } : n \in 0..MaxPieces }

-----------------------------------------------------------------------------
(* internal/auth: salted one-way password hashes *)

Passwords == {"pw1", "pw2"}

\* a number standing for the digest of password p under salt
Digest(p, salt) ==
    ((IF p = "pw1" THEN 2 ELSE 3) * 31 + salt * 17) % 101

\* the encoded hash string: algorithm, salt, digest
Encoded(p, salt) ==
    "$argon2id$" \o ToString(salt) \o "$" \o ToString(Digest(p, salt))

\* auth.HashPassword: (hash, error)
HashPassword(password, salt, works) ==
    IF works THEN [hash |-> Encoded(password, salt), err |-> FALSE]
    ELSE [hash |-> "", err |-> TRUE]

\* auth.CheckHashedPassword: (match, error); a hash that does not parse is
\* an error and no match
CheckHashedPassword(password, hash, salts) ==
    IF \E q \in Passwords, t \in salts : hash = Encoded(q, t)
    THEN [match |-> \E t \in salts : hash = Encoded(password, t), err |-> FALSE]
    ELSE [match |-> FALSE, err |-> TRUE]

-----------------------------------------------------------------------------
(* internal/database and the schema *)

Ids == 1..MaxRows

\* uuid.Nil
NilId == 0

Emails == {"", "a@x"}

\* sql.NullString{String: s, Valid: s != ""}
NullString(str) == [String |-> str, Valid |-> str # ""]

\* the zero value of database.User
ZeroUser ==
    [id |-> NilId, created_at |-> 0, updated_at |-> 0,
     email |-> [String |-> "", Valid |-> FALSE], hashed_password |-> ""]

\* users.email is UNIQUE (NULLs do not collide)
EmailFree(email, us) ==
    ~email.Valid \/ \A u \in us : ~(u.email.Valid /\ u.email.String = email.String)

\* CreateUser: INSERT INTO users ... RETURNING *
CreateUser(arg, us, id, dbOk) ==
    IF dbOk /\ EmailFree(arg.Email, us)
    THEN [err |-> FALSE,
          row |-> [id |-> id, created_at |-> id, updated_at |-> id,
                   email |-> arg.Email,
                   hashed_password |-> arg.HashedPassword]]
    ELSE [err |-> TRUE, row |-> ZeroUser]

\* GetUserByEmail: SELECT * FROM users WHERE email = $1; no row is an error
GetUserByEmail(email, us, dbOk) ==
    IF dbOk /\ email.Valid /\ \E u \in us : u.email = email
    THEN [err |-> FALSE, row |-> CHOOSE u \in us : u.email = email]
    ELSE [err |-> TRUE, row |-> ZeroUser]

\* no constraint on chirps.user_id
NoForeignKey(user_id, us) == TRUE

\* FOREIGN KEY(user_id) REFERENCES users(id)
ForeignKey(user_id, us) == \E u \in us : u.id = user_id

\* CreateChirp: INSERT INTO chirps ... RETURNING *
CreateChirp(arg, us, id, dbOk) ==
    IF dbOk /\ ForeignKey(arg.UserID, us)
    THEN [err |-> FALSE,
          row |-> [id |-> id, created_at |-> id, updated_at |-> id,
                   body |-> arg.Body, user_id |-> arg.UserID]]
    ELSE [err |-> TRUE, row |-> <<>>]

\* DeleteUsers: DELETE FROM users
DeleteUsers(us, dbOk) == IF dbOk THEN {} ELSE us

\* ON DELETE CASCADE: the chirps whose user is still in us
Cascade(cs, us) == {c \in cs : \E u \in us : u.id = c.user_id}

-----------------------------------------------------------------------------
(* main.go: the handlers *)

\* the longest chirp body, in bytes
MaxChirpLen == 140

\* n times the letter x
Xs(n) == [i \in 1..n |-> "x"]

\* body b filled with x up to n bytes
FillTo(b, n) == b \o Xs(n - ByteLen(b))

\* the bodies POST /api/chirps is sent
Bodies ==
    { <<>>,
      <<"F", "o", "r", "n", "a", "X", "!", " ", " ", "s">>,
      FillTo(<<"U+00E9">>, MaxChirpLen + 1),
      FillTo(kerfuffle \o <<" ", "U+00E9">>, MaxChirpLen),
      FillTo(kerfuffle \o <<" ">>, MaxChirpLen + 1) }

\* a request whose JSON does not decode
Malformed == [decodes |-> FALSE]

ChirpRequests ==
    {Malformed} \cup
    { [decodes |-> TRUE, Body |-> b, UserId |-> u] :
          b \in Bodies, u \in {NilId} \cup Ids }

UserRequests ==
    {Malformed} \cup
    { [decodes |-> TRUE, Email |-> e, Password |-> p] :
          e \in Emails, p \in Passwords }

Platforms == {"dev", "production"}

NoRequest ==
    [op |-> "none", req |-> Malformed, status |-> 0, body |-> <<>>, log |-> ""]

SrvInit ==
    /\ platform \in Platforms
    /\ fileserverHits = 0
    /\ users = {}
    /\ chirps = {}
    /\ nextId = 1
    /\ last = NoRequest

\* whether a query reaches the database: an insert also fails once the
\* identifiers are used up
InsertOutcomes == IF nextId <= MaxRows THEN BOOLEAN ELSE {FALSE}

\* the salts in the stored hashes, and the next one
Salts == 0..MaxRows + 1

\* middlewareMetricsInc, on a request under /app/
AppHit ==
    /\ fileserverHits < MaxHits
    /\ fileserverHits' = fileserverHits + 1
    /\ last' = [op |-> "app", req |-> Malformed, status |-> 200, body |-> <<>>,
                log |-> ""]
    /\ UNCHANGED <<platform, users, chirps, nextId>>

\* a reset that any platform may ask for
ForbiddenNever(p) == FALSE

\* if cfg.platform != "dev"
Forbidden(p) == p # "dev"

\* POST /admin/reset
PostReset ==
    IF Forbidden(platform)
    THEN /\ last' = [op |-> "reset", req |-> Malformed, status |-> 403,
                     body |-> <<>>, log |-> ""]
         /\ UNCHANGED <<platform, fileserverHits, users, chirps, nextId>>
    ELSE \E dbOk \in BOOLEAN :
         /\ fileserverHits' = 0
         /\ users' = DeleteUsers(users, dbOk)
         /\ chirps' = Cascade(chirps, DeleteUsers(users, dbOk))
         /\ last' = [op |-> "reset", req |-> Malformed,
                     status |-> IF dbOk THEN 200 ELSE 500,
                     body |-> IF dbOk THEN <<"Metrics reset\n">> ELSE <<>>,
                     log |-> ""]
         /\ UNCHANGED <<platform, nextId>>

\* the length check made on the sanitized body
TooLongSanitized(params) == ByteLen(sanitize(params.Body)) > MaxChirpLen

\* if len(params.Body) > 140
TooLong(params) == ByteLen(params.Body) > MaxChirpLen

\* the chirp stored as it was sent
chirpParamRaw(params) == [Body |-> params.Body, UserID |-> params.UserId]

\* database.CreateChirpParams{Body: sanitize(params.Body), UserID: ...}
chirpParam(params) == [Body |-> sanitize(params.Body), UserID |-> params.UserId]

\* chirpResp
chirpResp(chirp) ==
    [id |-> chirp.id, created_at |-> chirp.created_at,
     updated_at |-> chirp.updated_at, body |-> chirp.body,
     user_id |-> chirp.user_id]

\* POST /api/chirps
PostChirps(params) ==
    LET answer(st, b, l) ==
            [op |-> "chirps", req |-> params, status |-> st, body |-> b,
             log |-> l]
    IN  IF ~params.decodes
        THEN /\ last' = answer(500, [error |-> "Something went wrong"],
                               "decode")
             /\ UNCHANGED <<platform, fileserverHits, users, chirps, nextId>>
        ELSE IF TooLong(params)
        THEN /\ last' = answer(400, [error |-> "Chirp is too long"], "")
             /\ UNCHANGED <<platform, fileserverHits, users, chirps, nextId>>
        ELSE \E dbOk \in InsertOutcomes :
             LET made == CreateChirp(chirpParam(params), users, nextId, dbOk)
             IN  IF made.err
                 THEN /\ last' = answer(500, <<>>, "db")
                      /\ UNCHANGED <<platform, fileserverHits, users, chirps,
                                     nextId>>
                 ELSE /\ chirps' = chirps \cup {made.row}
                      /\ nextId' = nextId + 1
                      /\ last' = answer(201, chirpResp(made.row), "")
                      /\ UNCHANGED <<platform, fileserverHits, users>>

\* the password stored as it was sent
userDataPlain(params, hPassword) ==
    [Email |-> NullString(params.Email), HashedPassword |-> params.Password]

\* database.CreateUserParams{Email: ..., HashedPassword: hPassword}
userData(params, hPassword) ==
    [Email |-> NullString(params.Email), HashedPassword |-> hPassword]

\* userResp
userResp(user) ==
    [id |-> user.id, created_at |-> user.created_at,
     updated_at |-> user.updated_at, email |-> user.email.String]

\* POST /api/users
PostUsers(params) ==
    LET answer(st, b, l) ==
            [op |-> "users", req |-> params, status |-> st, body |-> b,
             log |-> l]
    IN  IF ~params.decodes
        THEN /\ last' = answer(500, <<>>, "decode")
             /\ UNCHANGED <<platform, fileserverHits, users, chirps, nextId>>
        ELSE \E hashOk \in BOOLEAN, dbOk \in InsertOutcomes :
             LET hashed == HashPassword(params.Password, nextId, hashOk)
                 made == CreateUser(userData(params, hashed.hash), users,
                                    nextId, dbOk)
             IN  IF hashed.err \/ made.err
                 THEN /\ last' = answer(500, <<>>,
                                        IF hashed.err THEN "hash" ELSE "db")
                      /\ UNCHANGED <<platform, fileserverHits, users, chirps,
                                     nextId>>
                 ELSE /\ users' = users \cup {made.row}
                      /\ nextId' = nextId + 1
                      /\ last' = answer(201, userResp(made.row), "")
                      /\ UNCHANGED <<platform, fileserverHits, chirps>>

\* POST /api/login: the error of GetUserByEmail is dropped, the row it
\* returned (the zero User on an error) is used
PostLogin(params) ==
    LET answer(st, b, l) ==
            [op |-> "login", req |-> params, status |-> st, body |-> b,
             log |-> l]
    IN  /\ IF ~params.decodes
           THEN last' = answer(500, <<>>, "decode")
           ELSE \E dbOk \in BOOLEAN :
                LET found == GetUserByEmail(NullString(params.Email), users,
                                            dbOk)
                    checked == CheckHashedPassword(params.Password,
                                   found.row.hashed_password, Salts)
                IN  last' = IF ~checked.match THEN answer(401, <<>>, "")
                            ELSE answer(200, userResp(found.row), "")
        /\ UNCHANGED <<platform, fileserverHits, users, chirps, nextId>>

SanIdle == text = <<>> /\ clean = <<>> /\ again = <<>> /\ stage = "new"

Init == SrvInit /\ platform = "dev" /\ SanIdle

Next ==
    \/ PostReset /\ UNCHANGED sanVars
    \/ \E params \in ChirpRequests : PostChirps(params) /\ UNCHANGED sanVars
    \/ \E params \in UserRequests : PostUsers(params) /\ UNCHANGED sanVars
    \/ \E params \in UserRequests : PostLogin(params) /\ UNCHANGED sanVars

Spec == Init /\ [][Next]_vars

\* The administrator's view: both platforms, the hit counter, and one
\* registration and one chirp to fill the store with
AdminUserRequests ==
    { [decodes |-> TRUE, Email |-> e, Password |-> "pw1"] : e \in {"", "a@x"} }

AdminChirpRequests ==
    { [decodes |-> TRUE, Body |-> kerfuffle, UserId |-> u] :
          u \in {NilId} \cup Ids }

InitAdmin == SrvInit /\ SanIdle

NextAdmin ==
    \/ AppHit /\ UNCHANGED sanVars
    \/ PostReset /\ UNCHANGED sanVars
    \/ \E params \in AdminChirpRequests : PostChirps(params) /\ UNCHANGED sanVars
    \/ \E params \in AdminUserRequests : PostUsers(params) /\ UNCHANGED sanVars

SpecAdmin == InitAdmin /\ [][NextAdmin]_vars

-----------------------------------------------------------------------------
(* Running sanitize on a text, and on its own result *)

SanInit ==
    /\ text \in Texts
    /\ clean = <<>>
    /\ again = <<>>
    /\ stage = "new"

SanitizeText ==
    /\ stage = "new"
    /\ clean' = sanitize(text)
    /\ stage' = "once"
    /\ UNCHANGED <<text, again>>

SanitizeAgain ==
    /\ stage = "once"
    /\ again' = sanitize(clean)
    /\ stage' = "twice"
    /\ UNCHANGED <<text, clean>>

InitSanitize == SanInit /\ SrvInit /\ platform = "dev"

NextSanitize == (SanitizeText \/ SanitizeAgain) /\ UNCHANGED srvVars

SpecSanitize == InitSanitize /\ [][NextSanitize]_vars

-----------------------------------------------------------------------------
(* What the claims about sanitize say, stated without the code's loop *)

\* the positions of the spaces of s, with a sentinel before and after s
Cuts(s) == {0, Len(s) + 1} \cup {i \in 1..Len(s) : s[i] = " "}

\* the k-th smallest element of the set of integers S
Nth(S, k) == CHOOSE p \in S : Cardinality({q \in S : q < p}) = k - 1

\* the maximal space-free stretches of s, empty ones included, in order
TokensOf(s) ==
    [k \in 1..(Cardinality(Cuts(s)) - 1) |->
        SubSeq(s, Nth(Cuts(s), k) + 1, Nth(Cuts(s), k + 1) - 1)]

\* every character of s is one of . , ! ?
OnlyPunct(s) == \A i \in 1..Len(s) : s[i] \in Cutset

\* c and d are the same letter up to case
SameLetter(c, d) == ToLowerRune(c) = ToLowerRune(d)

\* tok is punctuation, then a blacklisted word in any casing, then punctuation
Blacklisted(tok) ==
    \E w \in {kerfuffle, sharbert, fornax} :
        \E i \in 0..Len(tok) :
            /\ i + Len(w) <= Len(tok)
            /\ OnlyPunct(SubSeq(tok, 1, i))
            /\ OnlyPunct(SubSeq(tok, i + Len(w) + 1, Len(tok)))
            /\ \A k \in 1..Len(w) : SameLetter(tok[i + k], w[k])

HasDoubleSpace(s) == \E i \in 1..(Len(s) - 1) : s[i] = " " /\ s[i + 1] = " "

Spaces(s) == Cardinality({i \in 1..Len(s) : s[i] = " "})

\* C1: sanitize keeps the tokens between the spaces, one for one, and a
\* token becomes "****" exactly when, with leading and trailing . , ! ?
\* stripped and lower-cased, it is kerfuffle, sharbert or fornax; every
\* other token stays as it was; sanitize("") is "".
C1_SanitizeMasksExactlyBlacklisted ==
    stage # "new" =>
        /\ Len(TokensOf(clean)) = Len(TokensOf(text))
        /\ \A k \in 1..Len(TokensOf(text)) :
              TokensOf(clean)[k] =
                  IF Blacklisted(TokensOf(text)[k]) THEN Mask
                  ELSE TokensOf(text)[k]
        /\ (text = <<>> => clean = <<>>)

\* a text of several tokens, one masked although cased or punctuated, one
\* kept although it holds a blacklisted word
C1_Witness ==
    /\ stage = "once"
    /\ \E k \in 1..Len(TokensOf(text)) :
          /\ Blacklisted(TokensOf(text)[k])
          /\ ~Contains(badWords, TokensOf(text)[k])
          /\ TokensOf(clean)[k] = Mask
    /\ \E k \in 1..Len(TokensOf(text)) :
          /\ ~Blacklisted(TokensOf(text)[k])
          /\ TokensOf(text)[k] # <<>>
          /\ TokensOf(clean)[k] = TokensOf(text)[k]

\* C6: sanitize(sanitize(x)) = sanitize(x).
C6_SanitizeIdempotent == stage = "twice" => again = clean

\* sanitize ran twice on a text it changed
C6_Witness ==
    /\ stage = "twice"
    /\ clean # text
    /\ \E k \in 1..Len(TokensOf(clean)) : TokensOf(clean)[k] = Mask

\* C7 as claimed: the result of sanitize has no two adjacent spaces.
C7_Claimed_NoAdjacentSpaces == stage # "new" => ~HasDoubleSpace(clean)

\* C7 amended: sanitize keeps every space of its argument: the result has
\* as many spaces as the argument, and two adjacent spaces exactly when
\* the argument has.
C7_SpacesPreserved ==
    stage # "new" =>
        /\ Spaces(clean) = Spaces(text)
        /\ HasDoubleSpace(clean) <=> HasDoubleSpace(text)

\* a text with adjacent spaces and a masked token
C7_Witness ==
    /\ stage = "once"
    /\ HasDoubleSpace(text)
    /\ HasDoubleSpace(clean)
    /\ clean # text

\* C8 as claimed: sanitize(x) is as long as x.
C8_Claimed_SameLength == stage # "new" => ByteLen(clean) = ByteLen(text)

\* C8 amended: sanitize(x) is never longer than x, and as long as x
\* exactly when no token of x is masked.
C8_NeverLonger ==
    stage # "new" =>
        /\ ByteLen(clean) <= ByteLen(text)
        /\ ByteLen(clean) = ByteLen(text)
              <=> \A k \in 1..Len(TokensOf(text)) : ~Blacklisted(TokensOf(text)[k])

\* a masked token made the result shorter
C8_Witness ==
    /\ stage = "once"
    /\ ByteLen(clean) < ByteLen(text)
    /\ \E k \in 1..Len(TokensOf(text)) : Blacklisted(TokensOf(text)[k])

-----------------------------------------------------------------------------
(* What the claims about the handlers say *)

\* the ids of the stored users
UserIds == {u.id : u \in users}

\* h is a hash string that HashPassword makes
IsHash(h) == \E p \in Passwords, t \in Salts : h = Encoded(p, t)

\* C2: POST /api/chirps answers 400 "Chirp is too long", and stores no
\* chirp, exactly when the body as sent is longer than 140 bytes, whatever
\* its sanitized form would measure.
C2_TooLongIffRawOver140 ==
    [][(last'.op = "chirps" /\ last'.req.decodes) =>
          /\ last'.status = 400 <=> ByteLen(last'.req.Body) > MaxChirpLen
          /\ last'.status = 400 =>
                /\ last'.body = [error |-> "Chirp is too long"]
                /\ chirps' = chirps]_vars

\* a body rejected although its sanitized form is within 140 bytes
C2_Witness ==
    /\ last.op = "chirps"
    /\ last.req.decodes
    /\ last.status = 400
    /\ ByteLen(last.req.Body) = MaxChirpLen + 1
    /\ ByteLen(sanitize(last.req.Body)) <= MaxChirpLen

\* C3: every stored chirp body is at most 140 bytes long, has no token
\* that is a blacklisted word once stripped and lower-cased, and is the
\* sanitized form of a body that passed the length check.
C3_StoredBodiesCleanAndShort ==
    \A c \in chirps :
        /\ ByteLen(c.body) <= MaxChirpLen
        /\ \A k \in 1..Len(TokensOf(c.body)) : ~Blacklisted(TokensOf(c.body)[k])
        /\ \E b \in Bodies : ByteLen(b) <= MaxChirpLen /\ c.body = sanitize(b)

\* a chirp was stored with a body other than the one sent, and a chirp of
\* the full 140 bytes sent is stored
C3_Witness ==
    /\ last.op = "chirps"
    /\ last.status = 201
    /\ ByteLen(last.req.Body) = MaxChirpLen
    /\ \E c \in chirps : c.id = last.body.id /\ c.body # last.req.Body

\* C4 as claimed: POST /api/login answers 200 with the user's data exactly
\* when a user with the given email is stored and the given password
\* verifies against that user's hash, and 401 with no data otherwise.
C4_Claimed_LoginIffStoredAndVerifies ==
    (last.op = "login" /\ last.req.decodes) =>
        LET holders == {u \in users : /\ u.email.Valid
                                      /\ u.email.String = last.req.Email
                                      /\ CheckHashedPassword(last.req.Password,
                                             u.hashed_password, Salts).match}
        IN  /\ last.status = 200 <=> holders # {}
            /\ last.status = 200 => \E u \in holders : last.body = userResp(u)
            /\ last.status # 200 => last.status = 401 /\ last.body = <<>>

\* C5: no stored user holds a plaintext password, only a hash that
\* HashPassword made; a registration whose hashing fails answers 500 and
\* stores nothing; the answers of registration and login hold the id, the
\* two timestamps and the email, and neither the password nor the hash.
C5_OnlyHashesStored ==
    [][/\ \A u \in users' :
             u.hashed_password \notin Passwords /\ IsHash(u.hashed_password)
       /\ (last'.op = "users" /\ last'.log = "hash") =>
             last'.status = 500 /\ users' = users
       /\ last'.op \in {"users", "login"} =>
             IF last'.status \in {200, 201}
             THEN /\ DOMAIN last'.body = {"id", "created_at", "updated_at", "email"}
                  /\ last'.body.email \notin Passwords
                  /\ ~IsHash(last'.body.email)
             ELSE last'.body = <<>>]_vars

\* a registration stored a user
C5_Witness ==
    /\ last.op = "users"
    /\ last.status = 201
    /\ \E u \in users : u.id = last.body.id /\ IsHash(u.hashed_password)

\* C9: every stored chirp is owned by a stored user; creating a chirp for
\* a user id that is not stored answers 500 and stores nothing; chirps
\* are removed only by a reset that deletes the users, all of them at once.
C9_ChirpsOwnedByStoredUsers ==
    [][/\ \A c \in chirps' : \E u \in users' : u.id = c.user_id
       /\ ( /\ last'.op = "chirps"
            /\ last'.req.decodes
            /\ ByteLen(last'.req.Body) <= MaxChirpLen
            /\ last'.req.UserId \notin UserIds ) =>
             last'.status = 500 /\ chirps' = chirps
       /\ ~(chirps \subseteq chirps') =>
             last'.op = "reset" /\ users' = {} /\ chirps' = {}
       /\ (users' = {} /\ users # {}) => chirps' = {}]_vars

\* a chirp for a user that is not stored was refused while a user and a
\* chirp of theirs are stored
C9_Witness ==
    /\ last.op = "chirps"
    /\ last.req.decodes
    /\ last.status = 500
    /\ last.req.UserId \notin UserIds
    /\ users # {}
    /\ chirps # {}

\* C10: off the "dev" platform POST /admin/reset answers 403 and leaves
\* the hit counter, the users and the chirps as they were; on "dev" it
\* sets the hit counter to 0 and, when it answers 200, has deleted the
\* users.
C10_ResetOnlyOnDev ==
    [][last'.op = "reset" =>
          IF platform # "dev"
          THEN /\ last'.status = 403
               /\ fileserverHits' = fileserverHits
               /\ users' = users
               /\ chirps' = chirps
          ELSE /\ fileserverHits' = 0
               /\ last'.status \in {200, 500}
               /\ last'.status = 200 => users' = {}]_vars

\* a reset refused with hits counted and a user and a chirp stored
C10_Witness ==
    /\ last.op = "reset"
    /\ last.status = 403
    /\ fileserverHits > 0
    /\ users # {}
    /\ chirps # {}

=============================================================================
